---- MODULE Spec2Model ----
(***************************************************************************)
(* Model of the Option and Result types of src/rutils/option.py.           *)
(*                                                                         *)
(* Python objects live in a heap (a sequence; an object's identity is its  *)
(* index).  Python values are tagged records:                              *)
(*   [k |-> "int", n |-> i]      an integer                                *)
(*   [k |-> "none"]              None                                      *)
(*   [k |-> "bool", b |-> x]     a boolean                                 *)
(*   [k |-> "tuple", fst, snd]   a 2-tuple                                 *)
(*   [k |-> "ref", id |-> i]     a reference to heap object i              *)
(* Every method is an operator from (heap, self, arguments) to a call      *)
(* record [heap, out, nf, ng]: the heap after the call, the outcome        *)
(* (returned value or raised exception) and the number of times the        *)
(* caller-supplied one-argument function (nf) and zero-argument function   *)
(* (ng) were invoked.                                                      *)
(***************************************************************************)
EXTENDS Integers, Sequences, FiniteSets, TLC

VARIABLES heap, op, out, calls

vars == <<heap, op, out, calls>>

\* ---------------------------------------------------------------- bounds
MaxHeap == 3
MaxInt == 1

\* ---------------------------------------------------------------- values
IntV(i) == [k |-> "int", n |-> i]
NoneV == [k |-> "none"]
BoolV(x) == [k |-> "bool", b |-> x]
TupleV(a, b) == [k |-> "tuple", fst |-> a, snd |-> b]
Ref(i) == [k |-> "ref", id |-> i]

Ints == {IntV(i) : i \in 0..MaxInt}

Msgs == {"boom", "oops"}

\* the fixed message of OptionProtocol.unwrap (its backquotes left out)
UnwrapMsg == "called Option.unwrap() on a Nothing value"

Return(v) == [k |-> "return", val |-> v]
Raise(e, m) == [k |-> "raise", exc |-> e, msg |-> m]

UnwrapError(m) == Raise("UnwrapError", m)

Call(h, o, f, g) == [heap |-> h, out |-> o, nf |-> f, ng |-> g]

\* ---------------------------------------------------------------- objects
Some(v) == [cls |-> "Some", value |-> v]
Nothing == [cls |-> "Nothing"]
Ok == [cls |-> "Ok"]
Err == [cls |-> "Err"]

\* allocation of a new object: the heap after it, and the reference to it
New(h, obj) == [heap |-> Append(h, obj), ref |-> Ref(Len(h) + 1)]

IsRef(v) == v.k = "ref"

\* isinstance(v, OptionProtocol)
IsOption(h, v) == IsRef(v) /\ h[v.id].cls \in {"Some", "Nothing"}

\* isinstance(v, ResultProtocol)
IsResult(h, v) == IsRef(v) /\ h[v.id].cls \in {"Ok", "Err"}

OptionIds(h) == {i \in DOMAIN h : h[i].cls \in {"Some", "Nothing"}}
ResultIds(h) == {i \in DOMAIN h : h[i].cls \in {"Ok", "Err"}}

\* The == of Python.  Some and Nothing are dataclasses with eq=True: equal iff
\* the same class and equal fields.  Ok and Err define no __eq__ and inherit
\* object.__eq__, which is identity.
RECURSIVE PyEq(_, _, _)
PyEq(h, a, b) ==
  IF a.k # b.k THEN FALSE
  ELSE IF a.k = "int" THEN a.n = b.n
  ELSE IF a.k = "none" THEN TRUE
  ELSE IF a.k = "bool" THEN a.b = b.b
  ELSE IF a.k = "tuple" THEN PyEq(h, a.fst, b.fst) /\ PyEq(h, a.snd, b.snd)
  ELSE IF a.id = b.id THEN TRUE
  ELSE IF h[a.id].cls # h[b.id].cls THEN FALSE
  ELSE IF h[a.id].cls = "Some" THEN PyEq(h, h[a.id].value, h[b.id].value)
  ELSE IF h[a.id].cls = "Nothing" THEN TRUE
  ELSE FALSE

\* ------------------------------------------- caller-supplied functions
\* one-argument functions T -> U
Transforms == {"succ", "wrap", "drop"}
\* one-argument functions T -> Option[U]
Binders == {"wrap", "drop", "wrapsucc"}
\* predicates T -> bool
Predicates == {"isZero", "always", "never"}
\* zero-argument functions
Thunks == {"zero", "mkNothing"}

Succ(v) == IF v.k = "int" THEN IntV((v.n + 1) % (MaxInt + 1)) ELSE v

\* f(v): the heap after the call and the value returned
Invoke1(h, f, v) ==
  CASE f = "succ" -> [heap |-> h, ret |-> Succ(v)]
    [] f = "wrap" -> LET n == New(h, Some(v)) IN [heap |-> n.heap, ret |-> n.ref]
    [] f = "drop" -> LET n == New(h, Nothing) IN [heap |-> n.heap, ret |-> n.ref]
    [] f = "wrapsucc" ->
         LET n == New(h, Some(Succ(v))) IN [heap |-> n.heap, ret |-> n.ref]
    [] f = "wrapwrap" ->
         LET a == New(h, Some(v))
             b == New(a.heap, Some(a.ref))
         IN [heap |-> b.heap, ret |-> b.ref]
    [] f = "wrapdrop" ->
         LET a == New(h, Nothing)
             b == New(a.heap, Some(a.ref))
         IN [heap |-> b.heap, ret |-> b.ref]
    [] f = "isZero" -> [heap |-> h, ret |-> BoolV(v.k = "int" /\ v.n = 0)]
    [] f = "always" -> [heap |-> h, ret |-> BoolV(TRUE)]
    [] f = "never" -> [heap |-> h, ret |-> BoolV(FALSE)]

\* g(): the heap after the call and the value returned
Invoke0(h, g) ==
  CASE g = "zero" -> [heap |-> h, ret |-> IntV(0)]
    [] g = "mkSome" ->
         LET n == New(h, Some(IntV(0))) IN [heap |-> n.heap, ret |-> n.ref]
    [] g = "mkNothing" ->
         LET n == New(h, Nothing) IN [heap |-> n.heap, ret |-> n.ref]

\* the function v -> Some(f(v))
WrapOf(f) ==
  CASE f = "succ" -> "wrapsucc"
    [] f = "wrap" -> "wrapwrap"
    [] f = "drop" -> "wrapdrop"

\* ---------------------------------------------------------------- Some
Some_and_then(h, self, f) ==
  LET r == Invoke1(h, f, h[self].value) IN Call(r.heap, Return(r.ret), 1, 0)

\* variant: Some.expect raises as Nothing.expect does
Some_expect_raising(h, self, msg) == Call(h, UnwrapError(msg), 0, 0)

Some_expect(h, self, msg) == Call(h, Return(h[self].value), 0, 0)

\* variant: a payload that fails the predicate is dropped from the receiver
Some_filter_in_place(h, self, predicate) ==
  LET r == Invoke1(h, predicate, h[self].value)
  IN IF r.ret.b
       THEN Call(r.heap, Return(Ref(self)), 1, 0)
       ELSE Call([r.heap EXCEPT ![self] = Nothing], Return(Ref(self)), 1, 0)

Some_filter(h, self, predicate) ==
  LET r == Invoke1(h, predicate, h[self].value)
  IN IF r.ret.b
       THEN Call(r.heap, Return(Ref(self)), 1, 0)
       ELSE LET n == New(r.heap, Nothing) IN Call(n.heap, Return(n.ref), 1, 0)

Some_is_nothing(h, self) == Call(h, Return(BoolV(FALSE)), 0, 0)

Some_is_some(h, self) == Call(h, Return(BoolV(TRUE)), 0, 0)

\* variant: the result of f is not wrapped
Some_map_unwrapped(h, self, f) ==
  LET r == Invoke1(h, f, h[self].value) IN Call(r.heap, Return(r.ret), 1, 0)

Some_map(h, self, f) ==
  LET r == Invoke1(h, f, h[self].value)
      n == New(r.heap, Some(r.ret))
  IN Call(n.heap, Return(n.ref), 1, 0)

Some_map_or(h, self, default, f) ==
  LET r == Invoke1(h, f, h[self].value) IN Call(r.heap, Return(r.ret), 1, 0)

Some_map_or_else(h, self, default, f) ==
  LET r == Invoke1(h, f, h[self].value) IN Call(r.heap, Return(r.ret), 1, 0)

\* the body is "...": the method returns None
Some_ok_or(h, self, err) == Call(h, Return(NoneV), 0, 0)

\* the body is "...": the method returns None
Some_ok_or_else(h, self, f) == Call(h, Return(NoneV), 0, 0)

Some_unwrap_or(h, self, default) == Call(h, Return(h[self].value), 0, 0)

Some_unwrap_or_else(h, self, f) == Call(h, Return(h[self].value), 0, 0)

\* variant: the fallback is computed before the receiver is looked at
Some_or_else_eager(h, self, f) ==
  LET r == Invoke0(h, f) IN Call(r.heap, Return(Ref(self)), 0, 1)

Some_or_else(h, self, f) == Call(h, Return(Ref(self)), 0, 0)

Some_contains(h, self, item) ==
  Call(h, Return(BoolV(PyEq(h, item, h[self].value))), 0, 0)

\* ---------------------------------------------------------------- Nothing
Nothing_and_then(h, self, f) ==
  LET n == New(h, Nothing) IN Call(n.heap, Return(n.ref), 0, 0)

\* variant: the message of the caller is replaced by the fixed one
Nothing_expect_fixed(h, self, msg) == Call(h, UnwrapError(UnwrapMsg), 0, 0)

Nothing_expect(h, self, msg) == Call(h, UnwrapError(msg), 0, 0)

Nothing_filter(h, self, predicate) == Call(h, Return(Ref(self)), 0, 0)

Nothing_flatten(h, self) == Call(h, Return(Ref(self)), 0, 0)

Nothing_is_nothing(h, self) == Call(h, Return(BoolV(TRUE)), 0, 0)

Nothing_is_some(h, self) == Call(h, Return(BoolV(FALSE)), 0, 0)

Nothing_map(h, self, f) ==
  LET n == New(h, Nothing) IN Call(n.heap, Return(n.ref), 0, 0)

Nothing_map_or(h, self, default, f) == Call(h, Return(default), 0, 0)

Nothing_map_or_else(h, self, default, f) ==
  LET r == Invoke0(h, default) IN Call(r.heap, Return(r.ret), 0, 1)

\* the body is "...": the method returns None
Nothing_ok_or(h, self, err) == Call(h, Return(NoneV), 0, 0)

\* the body is "...": the method returns None
Nothing_ok_or_else(h, self, f) == Call(h, Return(NoneV), 0, 0)

Nothing_unwrap_or(h, self, default) == Call(h, Return(default), 0, 0)

Nothing_unwrap_or_else(h, self, f) ==
  LET r == Invoke0(h, f) IN Call(r.heap, Return(r.ret), 0, 1)

Nothing_or_else(h, self, f) ==
  LET r == Invoke0(h, f) IN Call(r.heap, Return(r.ret), 0, 1)

Nothing_zip(h, self, other) ==
  LET n == New(h, Nothing) IN Call(n.heap, Return(n.ref), 0, 0)

Nothing_contains(h, self, item) == Call(h, Return(BoolV(FALSE)), 0, 0)

\* ------------------------------------------------- dispatch on the class
IsSome(h, self) == h[self].cls = "Some"

expect(h, self, msg) ==
  IF IsSome(h, self) THEN Some_expect(h, self, msg)
  ELSE Nothing_expect(h, self, msg)

is_some(h, self) ==
  IF IsSome(h, self) THEN Some_is_some(h, self) ELSE Nothing_is_some(h, self)

is_nothing(h, self) ==
  IF IsSome(h, self) THEN Some_is_nothing(h, self)
  ELSE Nothing_is_nothing(h, self)

\* OptionProtocol.unwrap, inherited by both classes
OptionProtocol_unwrap(h, self) == expect(h, self, UnwrapMsg)

\* variant: every level of nesting is removed
Some_flatten_deep(h, self) ==
  LET t == OptionProtocol_unwrap(h, self)
  IN IF t.out.k = "raise" THEN t
     ELSE IF IsOption(t.heap, t.out.val)
       THEN LET u == t.heap[t.out.val.id]
            IN IF u.cls = "Some" /\ IsOption(t.heap, u.value)
                 THEN Call(t.heap, Return(u.value), 0, 0)
                 ELSE Call(t.heap, Return(t.out.val), 0, 0)
     ELSE Call(t.heap, Return(Ref(self)), 0, 0)

Some_flatten(h, self) ==
  LET t == OptionProtocol_unwrap(h, self)
  IN IF t.out.k = "raise" THEN t
     ELSE IF IsOption(t.heap, t.out.val) THEN Call(t.heap, Return(t.out.val), 0, 0)
     ELSE Call(t.heap, Return(Ref(self)), 0, 0)

\* variant: the payload of the argument comes first
Some_zip_swapped(h, self, other) ==
  LET c == is_some(h, other)
  IN IF c.out.val.b
       THEN LET a == OptionProtocol_unwrap(h, self)
                b == OptionProtocol_unwrap(a.heap, other)
            IN IF a.out.k = "raise" THEN a
               ELSE IF b.out.k = "raise" THEN b
               ELSE LET n == New(b.heap, Some(TupleV(b.out.val, a.out.val)))
                    IN Call(n.heap, Return(n.ref), 0, 0)
       ELSE LET n == New(h, Nothing) IN Call(n.heap, Return(n.ref), 0, 0)

\* Some((self.unwrap(), other.unwrap())) if other.is_some else Nothing()
Some_zip(h, self, other) ==
  LET c == is_some(h, other)
  IN IF c.out.val.b
       THEN LET a == OptionProtocol_unwrap(h, self)
                b == OptionProtocol_unwrap(a.heap, other)
            IN IF a.out.k = "raise" THEN a
               ELSE IF b.out.k = "raise" THEN b
               ELSE LET n == New(b.heap, Some(TupleV(a.out.val, b.out.val)))
                    IN Call(n.heap, Return(n.ref), 0, 0)
       ELSE LET n == New(h, Nothing) IN Call(n.heap, Return(n.ref), 0, 0)

and_then(h, self, f) ==
  IF IsSome(h, self) THEN Some_and_then(h, self, f)
  ELSE Nothing_and_then(h, self, f)

filter(h, self, predicate) ==
  IF IsSome(h, self) THEN Some_filter(h, self, predicate)
  ELSE Nothing_filter(h, self, predicate)

flatten(h, self) ==
  IF IsSome(h, self) THEN Some_flatten(h, self) ELSE Nothing_flatten(h, self)

map(h, self, f) ==
  IF IsSome(h, self) THEN Some_map(h, self, f) ELSE Nothing_map(h, self, f)

map_or(h, self, default, f) ==
  IF IsSome(h, self) THEN Some_map_or(h, self, default, f)
  ELSE Nothing_map_or(h, self, default, f)

map_or_else(h, self, default, f) ==
  IF IsSome(h, self) THEN Some_map_or_else(h, self, default, f)
  ELSE Nothing_map_or_else(h, self, default, f)

ok_or(h, self, err) ==
  IF IsSome(h, self) THEN Some_ok_or(h, self, err)
  ELSE Nothing_ok_or(h, self, err)

ok_or_else(h, self, f) ==
  IF IsSome(h, self) THEN Some_ok_or_else(h, self, f)
  ELSE Nothing_ok_or_else(h, self, f)

unwrap_or(h, self, default) ==
  IF IsSome(h, self) THEN Some_unwrap_or(h, self, default)
  ELSE Nothing_unwrap_or(h, self, default)

unwrap_or_else(h, self, f) ==
  IF IsSome(h, self) THEN Some_unwrap_or_else(h, self, f)
  ELSE Nothing_unwrap_or_else(h, self, f)

or_else(h, self, f) ==
  IF IsSome(h, self) THEN Some_or_else(h, self, f)
  ELSE Nothing_or_else(h, self, f)

zip(h, self, other) ==
  IF IsSome(h, self) THEN Some_zip(h, self, other)
  ELSE Nothing_zip(h, self, other)

contains(h, self, item) ==
  IF IsSome(h, self) THEN Some_contains(h, self, item)
  ELSE Nothing_contains(h, self, item)

\* ---------------------------------------------------------------- Result
Ok_is_err(h, self) == Call(h, Return(BoolV(FALSE)), 0, 0)

Ok_is_ok(h, self) == Call(h, Return(BoolV(TRUE)), 0, 0)

Err_is_err(h, self) == Call(h, Return(BoolV(TRUE)), 0, 0)

Err_is_ok(h, self) == Call(h, Return(BoolV(FALSE)), 0, 0)

is_ok(h, self) ==
  IF h[self].cls = "Ok" THEN Ok_is_ok(h, self) ELSE Err_is_ok(h, self)

is_err(h, self) ==
  IF h[self].cls = "Ok" THEN Ok_is_err(h, self) ELSE Err_is_err(h, self)

\* ---------------------------------------------------------------- eq
\* a == b on two objects
eq(h, a, b) == Call(h, Return(BoolV(PyEq(h, Ref(a), Ref(b)))), 0, 0)

\* ------------------------------------------------------- the state machine
\* heap:  the objects constructed so far
\* op:    the call the calling code has just made, with its arguments
\*        ("idle" between two calls)
\* out:   its outcome
\* calls: how often it invoked the one-argument function (f) and the
\*        zero-argument function (g) it was given
\* The library is synchronous and single-threaded: the calling code makes one
\* call, takes its outcome (Continue) and goes on to the next call.

\* payloads the calling code wraps: integers and existing options
Payloads(h) == Ints \cup {Ref(i) : i \in OptionIds(h)}

OptionThunks == {"mkSome", "mkNothing"}

Init ==
  /\ heap = <<>>
  /\ op = [name |-> "idle"]
  /\ out = Return(NoneV)
  /\ calls = [f |-> 0, g |-> 0]

\* the calling code makes the call o, whose effect is r
Do(o, r) ==
  /\ op.name = "idle"
  /\ Len(r.heap) <= MaxHeap
  /\ heap' = r.heap
  /\ op' = o
  /\ out' = r.out
  /\ calls' = [f |-> r.nf, g |-> r.ng]

Construct(o, obj) ==
  LET n == New(heap, obj) IN Do(o, Call(n.heap, Return(n.ref), 0, 0))

New_Some == \E v \in Payloads(heap) : Construct([name |-> "Some", value |-> v], Some(v))

New_Nothing ==
  /\ op.name = "idle"
  /\ Len(heap) < MaxHeap
  /\ heap' = Append(heap, Nothing)
  /\ op' = [name |-> "Nothing"]
  /\ out' = Return(Ref(Len(heap) + 1))
  /\ calls' = [f |-> 0, g |-> 0]

New_Ok ==
  /\ op.name = "idle"
  /\ Len(heap) < MaxHeap
  /\ heap' = Append(heap, Ok)
  /\ op' = [name |-> "Ok"]
  /\ out' = Return(Ref(Len(heap) + 1))
  /\ calls' = [f |-> 0, g |-> 0]

New_Err ==
  /\ op.name = "idle"
  /\ Len(heap) < MaxHeap
  /\ heap' = Append(heap, Err)
  /\ op' = [name |-> "Err"]
  /\ out' = Return(Ref(Len(heap) + 1))
  /\ calls' = [f |-> 0, g |-> 0]

Call_and_then ==
  \E self \in OptionIds(heap), f \in Binders :
    Do([name |-> "and_then", self |-> self, f |-> f], and_then(heap, self, f))

Call_expect ==
  \E self \in OptionIds(heap), msg \in Msgs :
    Do([name |-> "expect", self |-> self, msg |-> msg], expect(heap, self, msg))

Call_unwrap ==
  \E self \in OptionIds(heap) :
    Do([name |-> "unwrap", self |-> self], OptionProtocol_unwrap(heap, self))

Call_filter ==
  \E self \in OptionIds(heap), predicate \in Predicates :
    Do([name |-> "filter", self |-> self, f |-> predicate],
       filter(heap, self, predicate))

Call_flatten ==
  \E self \in OptionIds(heap) :
    Do([name |-> "flatten", self |-> self], flatten(heap, self))

Call_is_nothing ==
  \E self \in OptionIds(heap) :
    Do([name |-> "is_nothing", self |-> self], is_nothing(heap, self))

Call_is_some ==
  \E self \in OptionIds(heap) :
    Do([name |-> "is_some", self |-> self], is_some(heap, self))

Call_map ==
  \E self \in OptionIds(heap), f \in Transforms :
    Do([name |-> "map", self |-> self, f |-> f], map(heap, self, f))

Call_map_or ==
  \E self \in OptionIds(heap), default \in Ints, f \in Transforms :
    Do([name |-> "map_or", self |-> self, default |-> default, f |-> f],
       map_or(heap, self, default, f))

Call_map_or_else ==
  \E self \in OptionIds(heap), default \in Thunks, f \in Transforms :
    Do([name |-> "map_or_else", self |-> self, g |-> default, f |-> f],
       map_or_else(heap, self, default, f))

Call_ok_or ==
  \E self \in OptionIds(heap), err \in Ints :
    Do([name |-> "ok_or", self |-> self, err |-> err], ok_or(heap, self, err))

Call_ok_or_else ==
  \E self \in OptionIds(heap), f \in Thunks :
    Do([name |-> "ok_or_else", self |-> self, g |-> f], ok_or_else(heap, self, f))

Call_unwrap_or ==
  \E self \in OptionIds(heap), default \in Ints :
    Do([name |-> "unwrap_or", self |-> self, default |-> default],
       unwrap_or(heap, self, default))

Call_unwrap_or_else ==
  \E self \in OptionIds(heap), f \in Thunks :
    Do([name |-> "unwrap_or_else", self |-> self, g |-> f],
       unwrap_or_else(heap, self, f))

Call_or_else ==
  \E self \in OptionIds(heap), f \in OptionThunks :
    Do([name |-> "or_else", self |-> self, g |-> f], or_else(heap, self, f))

Call_zip ==
  \E self \in OptionIds(heap), other \in OptionIds(heap) :
    Do([name |-> "zip", self |-> self, other |-> other], zip(heap, self, other))

Call_contains ==
  \E self \in OptionIds(heap), item \in Payloads(heap) :
    Do([name |-> "contains", self |-> self, item |-> item],
       contains(heap, self, item))

Call_is_ok ==
  \E self \in ResultIds(heap) :
    Do([name |-> "is_ok", self |-> self], is_ok(heap, self))

Call_is_err ==
  \E self \in ResultIds(heap) :
    Do([name |-> "is_err", self |-> self], is_err(heap, self))

Call_eq ==
  \E a \in DOMAIN heap, b \in DOMAIN heap :
    Do([name |-> "eq", self |-> a, other |-> b], eq(heap, a, b))

\* the calling code takes the outcome of its call and goes on
Continue ==
  /\ op.name # "idle"
  /\ op' = [name |-> "idle"]
  /\ out' = Return(NoneV)
  /\ calls' = [f |-> 0, g |-> 0]
  /\ UNCHANGED heap

Next ==
  \/ Continue
  \/ New_Some
  \/ New_Nothing
  \/ New_Ok
  \/ New_Err
  \/ Call_and_then
  \/ Call_expect
  \/ Call_unwrap
  \/ Call_filter
  \/ Call_flatten
  \/ Call_is_nothing
  \/ Call_is_some
  \/ Call_map
  \/ Call_map_or
  \/ Call_map_or_else
  \/ Call_ok_or
  \/ Call_ok_or_else
  \/ Call_unwrap_or
  \/ Call_unwrap_or_else
  \/ Call_or_else
  \/ Call_zip
  \/ Call_contains
  \/ Call_is_ok
  \/ Call_is_err
  \/ Call_eq

Spec == Init /\ [][Next]_vars

\* ---------------------------------------------------------------- claims
Self == heap[op.self]

Returned == out.k = "return"

\* the class of the object the call returned, "" when it returned no object
ReturnedCls == IF Returned /\ IsRef(out.val) THEN heap[out.val.id].cls ELSE ""

\* C1: Some(v).ok_or(e) is an Ok and Nothing().ok_or(e) is an Err: ok_or
\* always returns a Result, whose is_ok is true exactly when the receiver is
\* a Some.
C1_ok_or_returns_result ==
  op.name = "ok_or" =>
    /\ Returned
    /\ IsResult(heap, out.val)
    /\ is_ok(heap, out.val.id).out.val.b = IsSome(heap, op.self)

\* C2: Some(v).ok_or_else(f) returns an Ok without invoking f, and
\* Nothing().ok_or_else(f) invokes f exactly once and returns an Err.
C2_ok_or_else_returns_result ==
  op.name = "ok_or_else" =>
    IF IsSome(heap, op.self)
      THEN calls.g = 0 /\ ReturnedCls = "Ok"
      ELSE calls.g = 1 /\ ReturnedCls = "Err"

\* same variant and, for a Some, equal payloads (Ok and Err carry none)
SameVariantAndPayload(h, a, b) ==
  /\ h[a].cls = h[b].cls
  /\ h[a].cls = "Some" => PyEq(h, h[a].value, h[b].value)

\* C3: equality is structural for both families: two objects are equal iff
\* they are the same variant with equal payloads, whether or not they are the
\* same object.
C3_equality_is_structural ==
  op.name = "eq" =>
    out = Return(BoolV(SameVariantAndPayload(heap, op.self, op.other)))

\* C4: in and_then, map, map_or, map_or_else, filter, or_else and
\* unwrap_or_else each supplied function is invoked at most once, the
\* transform or predicate never on a Nothing and the fallback never on a Some.
C4_functions_invoked_on_their_branch ==
  op.name \in {"and_then", "map", "map_or", "map_or_else", "filter",
               "or_else", "unwrap_or_else"} =>
    /\ calls.f <= 1
    /\ calls.g <= 1
    /\ ~IsSome(heap, op.self) => calls.f = 0
    /\ IsSome(heap, op.self) => calls.g = 0

\* a Nothing was given a fallback and a transform and invoked the fallback
C4_witness ==
  op.name = "map_or_else" /\ ~IsSome(heap, op.self) /\ calls.g = 1

\* C5: Nothing().expect(msg) raises UnwrapError(msg), Nothing().unwrap()
\* raises UnwrapError with the fixed message, and on Some(v) both return v.
C5_expect_and_unwrap ==
  /\ op.name = "expect" =>
       out = IF IsSome(heap, op.self) THEN Return(Self.value)
             ELSE UnwrapError(op.msg)
  /\ op.name = "unwrap" =>
       out = IF IsSome(heap, op.self) THEN Return(Self.value)
             ELSE UnwrapError(UnwrapMsg)

\* expect was called on a Nothing and raised
C5_witness == op.name = "expect" /\ ~IsSome(heap, op.self) /\ out.k = "raise"

\* C6: only expect and unwrap on a Nothing raise; every other call returns.
C6_only_unwrapping_nothing_raises ==
  out.k = "raise" =>
    /\ op.name \in {"expect", "unwrap"}
    /\ ~IsSome(heap, op.self)
    /\ out.exc = "UnwrapError"

\* zip of two Somes, which unwraps both, returned
C6_witness ==
  /\ op.name = "zip"
  /\ IsSome(heap, op.self)
  /\ IsSome(heap, op.other)
  /\ Returned

\* C7: flatten removes exactly one level: on Some(v) with v an option it
\* returns v itself, on any other Some and on Nothing it returns the receiver.
C7_flatten_one_level ==
  op.name = "flatten" =>
    out = Return(IF IsSome(heap, op.self) /\ IsOption(heap, Self.value)
                   THEN Self.value ELSE Ref(op.self))

\* Some(Some(Some(x))).flatten() returned the Some(Some(x)) it held
C7_witness ==
  /\ op.name = "flatten"
  /\ IsSome(heap, op.self)
  /\ IsOption(heap, Self.value)
  /\ IsSome(heap, Self.value.id)
  /\ IsOption(heap, heap[Self.value.id].value)
  /\ IsSome(heap, heap[Self.value.id].value.id)
  /\ out = Return(Self.value)

\* C8: a.zip(b) is Some((v, w)) when a is Some(v) and b is Some(w), the
\* payload of the receiver first, and Nothing in every other case.
C8_zip ==
  op.name = "zip" =>
    /\ Returned
    /\ IsOption(heap, out.val)
    /\ heap[out.val.id] =
         IF IsSome(heap, op.self) /\ IsSome(heap, op.other)
           THEN Some(TupleV(Self.value, heap[op.other].value))
           ELSE Nothing

\* two Somes of different payloads were zipped
C8_witness ==
  /\ op.name = "zip"
  /\ IsSome(heap, op.self)
  /\ IsSome(heap, op.other)
  /\ ~PyEq(heap, Self.value, heap[op.other].value)
  /\ ReturnedCls = "Some"

\* C9: no step changes an object that exists: every object keeps the class
\* and the payload it was constructed with.
C9_no_mutation ==
  [][\A i \in DOMAIN heap : i \in DOMAIN heap' /\ heap'[i] = heap[i]]_vars

\* filter on a Some returned the receiver itself
C9_witness ==
  /\ op.name = "filter"
  /\ IsSome(heap, op.self)
  /\ calls.f = 1
  /\ out = Return(Ref(op.self))

\* C10: x.map(f) == x.and_then(v -> Some(f(v))), x.and_then(Some) == x, and
\* map keeps the variant of the receiver.
C10_map_is_and_then_of_wrap ==
  /\ op.name = "map" =>
       LET a == and_then(heap, op.self, WrapOf(op.f))
       IN /\ Returned
          /\ a.out.k = "return"
          /\ PyEq(a.heap, out.val, a.out.val)
          /\ IsOption(heap, out.val)
          /\ is_some(heap, out.val.id).out = is_some(heap, op.self).out
  /\ (op.name = "and_then" /\ op.f = "wrap") =>
       Returned /\ PyEq(heap, out.val, Ref(op.self))

\* map on a Some with a function that returns a Nothing
C10_witness ==
  /\ op.name = "map"
  /\ op.f = "drop"
  /\ IsSome(heap, op.self)
  /\ ReturnedCls = "Some"

====
